---- MODULE Spec2Model ----
(***************************************************************************)
(* Capacity-calculation engine of the hours/absences dashboard (app.py):   *)
(* name normalizer, calendar service, capacity calculator, absence         *)
(* classifier, task aggregator and the monthly totals of the dashboard.    *)
(*                                                                         *)
(* Strings are sequences of one-character strings.  Hours are exact        *)
(* rationals [n |-> numerator, d |-> denominator] (d > 0, lowest terms);   *)
(* the rounding of IEEE-754 doubles is not modelled.                       *)
(***************************************************************************)
EXTENDS Integers, Sequences, FiniteSets, TLC

VARIABLES
    op,          \* name of the last operation applied
    raw,         \* normalizer: the raw name handed to normalizar_nombre
    norm,        \* normalizer: the value it returned
    ediciones,   \* normalizer: edits applied to raw since it was chosen
    year,        \* capacity: the year of the selected month
    month,       \* capacity: the number of the selected month (1..12)
    holidays_year,         \* capacity: what cal.holidays(year) returned
    dias_laborables,       \* capacity: net business days of the month
    festivos_laborables,   \* capacity: holidays of the month on Mon-Fri
    dias_vacaciones,       \* capacity: vacation days of the employee
    dias_otras_ausencias,  \* capacity: other absence days of the employee
    horas_disponibles,     \* capacity: calcular_horas_disponibles' result
    all_ausencias,         \* absences: what obtener_ausencias() returns
    festivos_barcelona,    \* absences: the dates festivos_barcelona holds
    empleado_nombre,       \* absences: the employee being classified
    dias_teletrabajo,      \* absences: remote-work days of the employee
    all_tasks,             \* tasks: the filtered tasks fetched from COR
    idx,                   \* tasks: position of the loop over all_tasks
    empleadosPorMes,       \* tasks: the report, month -> employee -> record
    mes_seleccionado,      \* dashboard: the month key selected
    totales,               \* dashboard: total available, estimated, charged
    data_rows,             \* dashboard: the rows of the detail table
    fuente,                \* download: the pages of tasks COR holds
    page,                  \* download: the page descargar_datos asks for
    factorial_caido,       \* download: employees whose leave fetch fails
    claves,                \* months: empleados_data.keys(), in dict order
    ahora,                 \* months: datetime.now() as <<year, month>>
    todos_los_meses,       \* months: the sorted list of month keys
    meses_mostrados,       \* months: the options of the selectbox
    default_index          \* months: the index selected by default

nombreVars == <<raw, norm, ediciones>>
capacidadVars == <<year, month, holidays_year, dias_laborables,
                   festivos_laborables, dias_vacaciones, dias_otras_ausencias,
                   horas_disponibles>>
ausenciaVars == <<all_ausencias, festivos_barcelona, empleado_nombre,
                  dias_teletrabajo>>
tareaVars == <<all_tasks, idx, empleadosPorMes, mes_seleccionado, totales,
               data_rows>>
descargaVars == <<fuente, page, factorial_caido>>
mesesVars == <<claves, ahora, todos_los_meses, meses_mostrados, default_index>>
vars == <<op, nombreVars, capacidadVars, ausenciaVars, tareaVars, descargaVars,
          mesesVars>>

----------------------------------------------------------------------------
(* Bounds *)

MaxEdiciones == 2
NumAnios == 2          \* years 2024 .. 2023 + NumAnios
MaxHolidays == 2       \* entries of the holiday list that are modelled
MaxVacaciones == 24    \* vacation days handed to the capacity calculator
MaxMeses == 6          \* month keys of the report
MaxPaginas == 2        \* pages of tasks the source holds
MaxTareas == 2         \* tasks in all_tasks
MaxAusencias == 2      \* leaves in a list of several leaves
DiasVentana == 43      \* days of the window of the single-leave lists
MaxOtras == 1          \* other absence days handed to the capacity calculator

----------------------------------------------------------------------------
(* 1. Configuration and constants (app.py section 1) *)

EMPLEADOS_NO_PRODUCTIVOS ==
    { <<"c","e","l","i","a"," ","h","e","n","r","i","q","u","e","z">>,
      <<"a","n","d","r","e","a"," ","m","a","r","t","í","n","e","z">> }

NOMBRE_MAPPING ==
    (<<"a","l","b","e","r","t"," ","s","u","n","y","e","r">>
       :> <<"a","l","b","e","r","t"," ","s","u","n","y","e","r"," ","v","i","l","a","f","r","a","n","c","a">>) @@
    (<<"d","a","v","i","d"," ","c","o","l","l","a","d","o">>
       :> <<"d","a","v","i","d"," ","c","o","l","l","a","d","o"," ","p","r","e","c","i","a","d","o">>) @@
    (<<"e","s","t","h","e","r"," ","j","a","n","e","r">>
       :> <<"e","s","t","h","e","r"," ","j","a","n","e","r"," ","r","o","i","g">>) @@
    (<<"v","a","n","e","s","s","a"," ","d","u","e","ñ","a","s">>
       :> <<"v","a","n","e","s","s","a"," ","d","u","e","ñ","a","s"," ","m","o","g","a">>) @@
    (<<"a","r","i","a","d","n","a"," ","d","e"," ","a","n","g","u","l","o">>
       :> <<"a","r","i","a","d","n","a"," ","d","e"," ","a","n","g","u","l","o"," ","v","i","l","l","a">>) @@
    (<<"n","o","r","m","a"," ","v","i","l","a">>
       :> <<"n","o","r","m","a"," ","v","i","l","a"," ","m","u","ñ","o","z">>) @@
    (<<"m","a","r"," ","e","s","t","e","v","a">>
       :> <<"m","a","r"," ","e","s","t","e","v","a"," ","f","a","b","r","e","g","a">>) @@
    (<<"m","a","r"," ","e","s","t","e","v","a"," ","f","à","b","r","e","g","a">>
       :> <<"m","a","r"," ","e","s","t","e","v","a"," ","f","a","b","r","e","g","a">>)

----------------------------------------------------------------------------
(* 2. Strings: the str methods normalizar_nombre uses *)

Whitespace == {" ", "\t"}

Mayusculas ==
    <<"A","B","C","D","E","F","G","H","I","J","K","L","M","N","O","P","Q","R",
      "S","T","U","V","W","X","Y","Z","Ñ","À","Í">>

Minusculas ==
    <<"a","b","c","d","e","f","g","h","i","j","k","l","m","n","o","p","q","r",
      "s","t","u","v","w","x","y","z","ñ","à","í">>

\* str.lower() on one character
char_lower(c) ==
    IF \E i \in DOMAIN Mayusculas : Mayusculas[i] = c
    THEN Minusculas[CHOOSE i \in DOMAIN Mayusculas : Mayusculas[i] = c]
    ELSE c

\* str.upper() on one character (used to build inputs only)
char_upper(c) ==
    IF \E i \in DOMAIN Minusculas : Minusculas[i] = c
    THEN Mayusculas[CHOOSE i \in DOMAIN Minusculas : Minusculas[i] = c]
    ELSE c

\* str.lower()
str_lower(s) == [i \in 1..Len(s) |-> char_lower(s[i])]

RECURSIVE str_lstrip(_)
str_lstrip(s) ==
    IF s # <<>> /\ Head(s) \in Whitespace THEN str_lstrip(Tail(s)) ELSE s

RECURSIVE str_rstrip(_)
str_rstrip(s) ==
    IF s # <<>> /\ s[Len(s)] \in Whitespace
    THEN str_rstrip(SubSeq(s, 1, Len(s) - 1))
    ELSE s

\* str.strip()
str_strip(s) == str_rstrip(str_lstrip(s))

\* str.split() without arguments: the maximal runs of non-whitespace
RECURSIVE str_split_from(_, _, _)
str_split_from(s, palabra, palabras) ==
    IF s = <<>>
    THEN IF palabra = <<>> THEN palabras ELSE Append(palabras, palabra)
    ELSE IF Head(s) \in Whitespace
         THEN str_split_from(Tail(s), <<>>,
                             IF palabra = <<>> THEN palabras
                             ELSE Append(palabras, palabra))
         ELSE str_split_from(Tail(s), Append(palabra, Head(s)), palabras)

str_split(s) == str_split_from(s, <<>>, <<>>)

\* sep.join(palabras)
RECURSIVE str_join(_, _)
str_join(sep, palabras) ==
    IF palabras = <<>> THEN <<>>
    ELSE IF Len(palabras) = 1 THEN palabras[1]
    ELSE palabras[1] \o sep \o str_join(sep, Tail(palabras))

\* dict.get(key, default)
dict_get(d, key, default) == IF key \in DOMAIN d THEN d[key] ELSE default

\* normalizar_nombre with the lowercasing left out
normalizar_nombre_sin_lower(nombre) ==
    LET nombre_norm == str_join(<<" ">>, str_split(str_strip(nombre)))
    IN  dict_get(NOMBRE_MAPPING, nombre_norm, nombre_norm)

normalizar_nombre(nombre) ==
    LET nombre_norm == str_join(<<" ">>, str_split(str_strip(str_lower(nombre))))
    IN  dict_get(NOMBRE_MAPPING, nombre_norm, nombre_norm)

----------------------------------------------------------------------------
(* Exact rational arithmetic standing for Python's float arithmetic *)

RECURSIVE GCD(_, _)
GCD(a, b) == IF b = 0 THEN a ELSE GCD(b, a % b)

Abs(x) == IF x < 0 THEN -x ELSE x

\* the value of an expression whose evaluation raised ZeroDivisionError
ZeroDivision == [n |-> 0, d |-> 0]

Rat(n, d) ==
    IF d = 0 THEN ZeroDivision
    ELSE LET g == GCD(Abs(n), Abs(d))
             s == IF d < 0 THEN -1 ELSE 1
         IN  [n |-> (s * n) \div g, d |-> (s * d) \div g]

RInt(i) == [n |-> i, d |-> 1]

RAdd(x, y) ==
    IF x.d = 0 \/ y.d = 0 THEN ZeroDivision
    ELSE LET g == GCD(x.d, y.d)
         IN  Rat(x.n * (y.d \div g) + y.n * (x.d \div g), (x.d \div g) * y.d)

RNeg(x) == [n |-> -x.n, d |-> x.d]

RSub(x, y) == RAdd(x, RNeg(y))

RMul(x, y) ==
    IF x.d = 0 \/ y.d = 0 THEN ZeroDivision
    ELSE LET a == Rat(x.n, y.d)
             b == Rat(y.n, x.d)
         IN  [n |-> a.n * b.n, d |-> a.d * b.d]

\* x / y; Python raises ZeroDivisionError when y is 0
RDiv(x, y) ==
    IF x.d = 0 \/ y.d = 0 \/ y.n = 0 THEN ZeroDivision
    ELSE RMul(x, Rat(y.d, y.n))

RLe(x, y) == x.n * y.d <= y.n * x.d

\* max(0, x)
RMax0(x) == IF x.d = 0 THEN ZeroDivision ELSE IF x.n < 0 THEN RInt(0) ELSE x

----------------------------------------------------------------------------
(* The calendar: datetime.date and calendar.monthrange *)

IsLeap(y) == (y % 4 = 0) /\ ((y % 100 # 0) \/ (y % 400 = 0))

DaysInMonth(y, m) ==
    IF m = 2 THEN (IF IsLeap(y) THEN 29 ELSE 28)
    ELSE IF m \in {4, 6, 9, 11} THEN 30 ELSE 31

\* the days of the year before the first day of month m
DaysBeforeMonth(y, m) ==
    <<0, 31, 59, 90, 120, 151, 181, 212, 243, 273, 304, 334>>[m]
        + (IF m > 2 /\ IsLeap(y) THEN 1 ELSE 0)

DaysBeforeYear(y) ==
    365 * (y - 1) + ((y - 1) \div 4) - ((y - 1) \div 100) + ((y - 1) \div 400)

\* date(y, m, d).toordinal(); a date is the tuple <<y, m, d>>
toordinal(f) == DaysBeforeYear(f[1]) + DaysBeforeMonth(f[1], f[2]) + f[3]

\* date.weekday(): Monday is 0, Sunday is 6
weekday(f) == (toordinal(f) + 6) % 7

date_le(f, g) == toordinal(f) <= toordinal(g)

----------------------------------------------------------------------------
(* calcular_dias_laborables_festivos and calcular_horas_disponibles *)

\* the second loop of calcular_dias_laborables_festivos over the entries
\* <<dia, label>> of holidays_year
RECURSIVE contar_festivos(_, _, _)
contar_festivos(hols, start_date, end_date) ==
    IF hols = <<>> THEN 0
    ELSE LET dia == Head(hols)[1]
         IN  (IF date_le(start_date, dia) /\ date_le(dia, end_date)
                 /\ weekday(dia) < 5
              THEN 1 ELSE 0)
             + contar_festivos(Tail(hols), start_date, end_date)

\* the first loop: the Monday-Friday dates of the month
contar_laborables(y, m, total_days) ==
    Cardinality({day \in 1..total_days : weekday(<<y, m, day>>) < 5})

\* calcular_dias_laborables_festivos returning the gross working days
\* instead of the net ones
calcular_dias_laborables_festivos_brutos(y, m, hols) ==
    LET total_days == DaysInMonth(y, m)
        start_date == <<y, m, 1>>
        end_date   == <<y, m, total_days>>
        dl == contar_laborables(y, m, total_days)
        fl == contar_festivos(hols, start_date, end_date)
    IN  <<dl, fl>>

\* hols is what Catalonia().holidays(y) returned
calcular_dias_laborables_festivos(y, m, hols) ==
    LET total_days == DaysInMonth(y, m)
        start_date == <<y, m, 1>>
        end_date   == <<y, m, total_days>>
        dl == contar_laborables(y, m, total_days)
        fl == contar_festivos(hols, start_date, end_date)
    IN  <<dl - fl, fl>>

\* calcular_horas_disponibles with the guard of the division left out
calcular_horas_disponibles_sin_guarda(y, m, hols, dv, doa, buffer_porcentaje) ==
    LET dl == calcular_dias_laborables_festivos(y, m, hols)[1]
        horas_por_dia == IF m = 8 THEN 7 ELSE 8
        dias_ausencia_total == dv + doa
        horas_brutas == dl * horas_por_dia
        horas_ausencias == dias_ausencia_total * horas_por_dia
        porcentaje_ausencia == RDiv(RInt(dias_ausencia_total), RInt(dl))
        buffer == RMul(RMul(RInt(horas_brutas - horas_ausencias),
                            buffer_porcentaje),
                       RSub(RInt(1), porcentaje_ausencia))
    IN  RMax0(RSub(RInt(horas_brutas - horas_ausencias), buffer))

\* calcular_horas_disponibles returning the difference without max(0, ...)
calcular_horas_disponibles_sin_max(y, m, hols, dv, doa, buffer_porcentaje) ==
    LET dl == calcular_dias_laborables_festivos(y, m, hols)[1]
        horas_por_dia == IF m = 8 THEN 7 ELSE 8
        dias_ausencia_total == dv + doa
        horas_brutas == dl * horas_por_dia
        horas_ausencias == dias_ausencia_total * horas_por_dia
        porcentaje_ausencia ==
            IF dl > 0 THEN RDiv(RInt(dias_ausencia_total), RInt(dl))
            ELSE RInt(1)
        buffer == RMul(RMul(RInt(horas_brutas - horas_ausencias),
                            buffer_porcentaje),
                       RSub(RInt(1), porcentaje_ausencia))
    IN  RSub(RInt(horas_brutas - horas_ausencias), buffer)

\* calcular_horas_disponibles with the flat buffer of the earlier variant
calcular_horas_disponibles_buffer_plano(y, m, hols, dv, doa, buffer_porcentaje) ==
    LET dl == calcular_dias_laborables_festivos(y, m, hols)[1]
        horas_por_dia == IF m = 8 THEN 7 ELSE 8
        dias_ausencia_total == dv + doa
        horas_brutas == dl * horas_por_dia
        horas_ausencias == dias_ausencia_total * horas_por_dia
        buffer == RMul(RInt(horas_brutas), buffer_porcentaje)
    IN  RMax0(RSub(RInt(horas_brutas - horas_ausencias), buffer))

calcular_horas_disponibles(y, m, hols, dv, doa, buffer_porcentaje) ==
    LET dl == calcular_dias_laborables_festivos(y, m, hols)[1]
        horas_por_dia == IF m = 8 THEN 7 ELSE 8
        dias_ausencia_total == dv + doa
        horas_brutas == dl * horas_por_dia
        horas_ausencias == dias_ausencia_total * horas_por_dia
        porcentaje_ausencia ==
            IF dl > 0 THEN RDiv(RInt(dias_ausencia_total), RInt(dl))
            ELSE RInt(1)
        buffer == RMul(RMul(RInt(horas_brutas - horas_ausencias),
                            buffer_porcentaje),
                       RSub(RInt(1), porcentaje_ausencia))
    IN  RMax0(RSub(RInt(horas_brutas - horas_ausencias), buffer))

\* the default value of buffer_porcentaje, 0.1
BufferPorDefecto == Rat(1, 10)

----------------------------------------------------------------------------
(* calcular_dias_laborables_por_mes and calcular_ausencias_empleado *)

\* ids_no_descuentan and ID_VACACIONES of calcular_ausencias_empleado
ids_no_descuentan == {2280065}

ID_VACACIONES == 2276680

\* the value of ausencia.get("leave_type_id") when the record has no such key
SinTipo == 0

\* the day after f
siguiente_dia(f) ==
    IF f[3] < DaysInMonth(f[1], f[2]) THEN <<f[1], f[2], f[3] + 1>>
    ELSE IF f[2] < 12 THEN <<f[1], f[2] + 1, 1>>
    ELSE <<f[1] + 1, 1, 1>>

\* pd.date_range(start=inicio, end=fin, freq='B'): the Monday-Friday dates
\* from inicio to fin, both included
RECURSIVE date_range_B(_, _)
date_range_B(inicio, fin) ==
    IF ~date_le(inicio, fin) THEN <<>>
    ELSE (IF weekday(inicio) < 5 THEN <<inicio>> ELSE <<>>)
         \o date_range_B(siguiente_dia(inicio), fin)

\* pd.date_range that leaves the end date out
RECURSIVE date_range_B_sin_fin(_, _)
date_range_B_sin_fin(inicio, fin) ==
    IF ~date_le(siguiente_dia(inicio), fin) THEN <<>>
    ELSE (IF weekday(inicio) < 5 THEN <<inicio>> ELSE <<>>)
         \o date_range_B_sin_fin(siguiente_dia(inicio), fin)

\* pd.Period(f, freq='M') as <<year, month>>
periodo(f) == <<f[1], f[2]>>

periodo_lt(p, q) == p[1] < q[1] \/ (p[1] = q[1] /\ p[2] < q[2])

IsHoliday(f, festivos) == f \in festivos

\* dias.to_series().groupby(dias.to_period("M")).size()
groupby_size(dias) ==
    [p \in {periodo(dias[i]) : i \in DOMAIN dias}
        |-> Cardinality({i \in DOMAIN dias : periodo(dias[i]) = p})]

\* festivos is the set of dates festivos_barcelona holds
calcular_dias_laborables_por_mes(inicio, fin, festivos) ==
    LET dias == date_range_B(inicio, fin)
        dias_lab == SelectSeq(dias, LAMBDA f : ~IsHoliday(f, festivos))
    IN  groupby_size(dias_lab)

\* line 173 testing only the month in which the leave starts
fuera_del_mes_solo_inicio(mes_objetivo, mes_inicio, mes_fin) ==
    mes_objetivo # mes_inicio

\* line 173: the leave does not overlap the target month
fuera_del_mes(mes_objetivo, mes_inicio, mes_fin) ==
    periodo_lt(mes_objetivo, mes_inicio) \/ periodo_lt(mes_fin, mes_objetivo)

\* lines 180-186 with the non-deducting types counted as other absences
clasificar_tele_en_otras(acc, tipo_id, dias) ==
    IF tipo_id = ID_VACACIONES THEN <<acc[1] + dias, acc[2], acc[3]>>
    ELSE <<acc[1], acc[2] + dias, acc[3]>>

\* lines 180-186: acc is <<dias_vacaciones, dias_otras_ausencias,
\* dias_teletrabajo>>
clasificar(acc, tipo_id, dias) ==
    IF tipo_id \in ids_no_descuentan THEN <<acc[1], acc[2], acc[3] + dias>>
    ELSE IF tipo_id = ID_VACACIONES THEN <<acc[1] + dias, acc[2], acc[3]>>
    ELSE <<acc[1], acc[2] + dias, acc[3]>>

\* line 164 letting the leaves of every employee through
otro_empleado_nunca(nombre_ausencia, empleado_nombre_norm) == FALSE

\* line 164: the leave belongs to another employee
otro_empleado(nombre_ausencia, empleado_nombre_norm) ==
    nombre_ausencia # empleado_nombre_norm

\* an exception leaving a function, as a one-element tuple
KeyError == <<"KeyError">>

ValueError == <<"ValueError">>

HTTPError == <<"HTTPError">>

es_excepcion(r) == Len(r) = 1

\* pd.to_datetime(f) parses f: f is a date of the calendar
fecha_valida(f) ==
    /\ f[2] \in 1..12
    /\ f[3] \in 1..DaysInMonth(f[1], f[2])

\* the loop of calcular_ausencias_empleado, lines 162-186; ausencia["start_on"]
\* raises KeyError when the record lacks the key, pd.to_datetime raises
\* ValueError when the date does not parse
RECURSIVE bucle_ausencias(_, _, _, _, _)
bucle_ausencias(ausencias, empleado_nombre_norm, mes_objetivo, festivos, acc) ==
    IF ausencias = <<>> THEN acc
    ELSE
      LET ausencia == Head(ausencias)
          nombre_ausencia == normalizar_nombre(ausencia.employee_full_name)
          inicio == ausencia.start_on
          fin == ausencia.finish_on
          mes_inicio == periodo(inicio)
          mes_fin == periodo(fin)
          dias_periodo == calcular_dias_laborables_por_mes(inicio, fin, festivos)
          dias == dict_get(dias_periodo, mes_objetivo, 0)
          sig ==
            IF otro_empleado(nombre_ausencia, empleado_nombre_norm) THEN acc
            ELSE IF fuera_del_mes(mes_objetivo, mes_inicio, mes_fin) THEN acc
            ELSE clasificar(acc, ausencia.leave_type_id, dias)
      IN  IF ~otro_empleado(nombre_ausencia, empleado_nombre_norm)
             /\ {"start_on", "finish_on"} \ DOMAIN ausencia # {}
          THEN KeyError
          ELSE IF ~otro_empleado(nombre_ausencia, empleado_nombre_norm)
                  /\ (~fecha_valida(inicio) \/ ~fecha_valida(fin))
          THEN ValueError
          ELSE bucle_ausencias(Tail(ausencias), empleado_nombre_norm,
                               mes_objetivo, festivos, sig)

\* all_aus is what obtener_ausencias() returned; the result is
\* <<dias_vacaciones, dias_otras_ausencias, dias_teletrabajo>>
calcular_ausencias_empleado(emp, anio, mes, all_aus, festivos) ==
    bucle_ausencias(all_aus, normalizar_nombre(emp), <<anio, mes>>, festivos,
                    <<0, 0, 0>>)

----------------------------------------------------------------------------
(* descargar_datos: the aggregation of the tasks and the absences *)

NOMBRES_MESES ==
    <<"enero", "febrero", "marzo", "abril", "mayo", "junio",
      "julio", "agosto", "septiembre", "octubre", "noviembre", "diciembre">>

\* line 254: the tasks of a page with charged or estimated hours
filtrar(tasks) ==
    SelectSeq(tasks, LAMBDA t : t.hour_charged > 0 \/ t.estimated > 0)

\* {}: a dict without keys.  Dicts are functions; the order in which a
\* dict is iterated is not modelled.
dict_vacio == [k \in {} |-> 0]

\* d[key] = value
dict_set(d, key, value) ==
    [k \in DOMAIN d \cup {key} |-> IF k = key THEN value ELSE d[k]]

\* f"{nombre_mes}-{year}", kept as the pair <<nombre_mes, year>>
sheet_name_de(dt) == <<NOMBRES_MESES[dt[2]], dt[1]>>

\* lines 289-290: the identity of a collaborator
colab_name_de(colab) ==
    normalizar_nombre(str_strip(colab.first_name \o <<" ">> \o colab.last_name))

\* lines 293-299
registro_nuevo ==
    [horas_cargadas |-> RInt(0), horas_estimadas |-> RInt(0),
     vacaciones |-> 0, otras_ausencias |-> 0, teletrabajo |-> 0]

\* line 281 counting the distinct identities instead of the list entries
num_cols_distintos(colaboradores) ==
    Cardinality({colab_name_de(colaboradores[i]) : i \in DOMAIN colaboradores})

\* line 281: num_cols = len(colaboradores)
num_cols_de(colaboradores) == Len(colaboradores)

\* lines 301-302 assigning the share instead of adding it
sumar_horas_asignando(registro, hc_por_colab, est_por_colab) ==
    [registro EXCEPT !.horas_cargadas = hc_por_colab,
                     !.horas_estimadas = est_por_colab]

\* lines 301-302 subtracting the share
sumar_horas_restando(registro, hc_por_colab, est_por_colab) ==
    [registro EXCEPT !.horas_cargadas = RSub(@, hc_por_colab),
                     !.horas_estimadas = RSub(@, est_por_colab)]

\* lines 301-302
sumar_horas(registro, hc_por_colab, est_por_colab) ==
    [registro EXCEPT !.horas_cargadas = RAdd(@, hc_por_colab),
                     !.horas_estimadas = RAdd(@, est_por_colab)]

\* lines 288-302: the loop over the collaborators of one task; mes_dict is
\* empleadosPorMes[sheet_name]
RECURSIVE bucle_colaboradores(_, _, _, _)
bucle_colaboradores(mes_dict, colaboradores, hc_por_colab, est_por_colab) ==
    IF colaboradores = <<>> THEN mes_dict
    ELSE
      LET colab_name == colab_name_de(Head(colaboradores))
          con_registro ==
              IF colab_name \notin DOMAIN mes_dict
              THEN dict_set(mes_dict, colab_name, registro_nuevo)
              ELSE mes_dict
      IN  bucle_colaboradores(
              dict_set(con_registro, colab_name,
                       sumar_horas(con_registro[colab_name],
                                   hc_por_colab, est_por_colab)),
              Tail(colaboradores), hc_por_colab, est_por_colab)

\* lines 259-302 with the month key created after the collaborators check
agregar_tarea_mes_tardio(epm, task) ==
    IF task.datetime = <<>> \/ task.collaborators = <<>> THEN epm
    ELSE
      LET sheet_name == sheet_name_de(task.datetime)
          con_mes == IF sheet_name \notin DOMAIN epm
                     THEN dict_set(epm, sheet_name, dict_vacio)
                     ELSE epm
          num_cols == num_cols_de(task.collaborators)
      IN  dict_set(con_mes, sheet_name,
              bucle_colaboradores(con_mes[sheet_name], task.collaborators,
                  RDiv(RInt(task.hour_charged), RInt(num_cols)),
                  RDiv(RDiv(RInt(task.estimated), RInt(60)), RInt(num_cols))))

\* lines 259-302: one iteration of the loop over all_tasks; a task without
\* datetime has datetime = <<>>
agregar_tarea(epm, task) ==
    IF task.datetime = <<>> THEN epm
    ELSE
      LET sheet_name == sheet_name_de(task.datetime)
          con_mes == IF sheet_name \notin DOMAIN epm
                     THEN dict_set(epm, sheet_name, dict_vacio)
                     ELSE epm
          estimated_hours == RDiv(RInt(task.estimated), RInt(60))
          colaboradores == task.collaborators
          num_cols == num_cols_de(colaboradores)
      IN  IF colaboradores = <<>> THEN con_mes
          ELSE dict_set(con_mes, sheet_name,
                   bucle_colaboradores(con_mes[sheet_name], colaboradores,
                       RDiv(RInt(task.hour_charged), RInt(num_cols)),
                       RDiv(estimated_hours, RInt(num_cols))))

\* lines 258-302: the whole loop
RECURSIVE agregar_tareas(_, _)
agregar_tareas(epm, tasks) ==
    IF tasks = <<>> THEN epm
    ELSE agregar_tareas(agregar_tarea(epm, Head(tasks)), Tail(tasks))

\* line 309: NOMBRES_MESES.index(mes_nombre) + 1
mes_de(sheet_name) ==
    CHOOSE i \in DOMAIN NOMBRES_MESES : NOMBRES_MESES[i] = sheet_name[1]

\* lines 312-315: the three counters of an employee are set from the tuple
\* calcular_ausencias_empleado returned
con_ausencias(registro, vac, otras, tele) ==
    [registro EXCEPT !.vacaciones = vac,
                     !.otras_ausencias = otras,
                     !.teletrabajo = tele]

\* vistas followed by the names of nuevas it does not hold, each once
RECURSIVE sin_repetir(_, _)
sin_repetir(vistas, nuevas) ==
    IF nuevas = <<>> THEN vistas
    ELSE sin_repetir(
             IF \E i \in DOMAIN vistas : vistas[i] = Head(nuevas)
             THEN vistas ELSE Append(vistas, Head(nuevas)),
             Tail(nuevas))

\* the keys of empleadosPorMes[sheet_name] in the order of the dict: the
\* order in which lines 292-299 inserted them while tasks were aggregated
RECURSIVE claves_en_orden(_, _, _)
claves_en_orden(tasks, sheet_name, vistas) ==
    IF tasks = <<>> THEN vistas
    ELSE
      LET task == Head(tasks)
          nombres == [i \in DOMAIN task.collaborators |->
                         colab_name_de(task.collaborators[i])]
          nuevas == IF task.datetime # <<>>
                       /\ sheet_name_de(task.datetime) = sheet_name
                    THEN nombres ELSE <<>>
      IN  claves_en_orden(Tail(tasks), sheet_name, sin_repetir(vistas, nuevas))

\* lines 311-324: the loop over the employees of one month.  obtener_ausencias
\* is called for each employee and raises for those in caidos.  A ValueError
\* is handled at lines 317-321 and the loop goes on; any other exception
\* leaves the loop and is handled at lines 323-324.
RECURSIVE bucle_empleados(_, _, _, _, _, _)
bucle_empleados(mes_dict, colaboradores, sheet_name, all_aus, festivos, caidos) ==
    IF colaboradores = <<>> THEN mes_dict
    ELSE
      LET colaborador == Head(colaboradores)
      IN  CHOOSE resultado \in
            { IF r = ValueError
              THEN bucle_empleados(
                       dict_set(mes_dict, colaborador,
                           con_ausencias(mes_dict[colaborador], 0, 0, 0)),
                       Tail(colaboradores), sheet_name, all_aus, festivos,
                       caidos)
              ELSE IF es_excepcion(r) THEN mes_dict
              ELSE bucle_empleados(
                       dict_set(mes_dict, colaborador,
                           con_ausencias(mes_dict[colaborador],
                                         r[1], r[2], r[3])),
                       Tail(colaboradores), sheet_name, all_aus, festivos,
                       caidos) :
                r \in { IF colaborador \in caidos THEN HTTPError
                        ELSE calcular_ausencias_empleado(colaborador,
                                 sheet_name[2], mes_de(sheet_name), all_aus,
                                 festivos) } } : TRUE

\* lines 305-324: the absences of every employee of every month; tasks is
\* the list the report was aggregated from
anadir_ausencias(epm, tasks, all_aus, festivos, caidos) ==
    [sheet_name \in DOMAIN epm |->
        bucle_empleados(epm[sheet_name],
                        claves_en_orden(tasks, sheet_name, <<>>),
                        sheet_name, all_aus, festivos, caidos)]

\* lines 510 and 580 with the denylist left out
es_no_productivo_nunca(colab) == FALSE

\* lines 510 and 580
es_no_productivo(colab) == normalizar_nombre(colab) \in EMPLEADOS_NO_PRODUCTIVOS

\* lines 505-516: the totals of the month as
\* <<total_horas_disponibles, total_horas_estimadas, total_horas_cargadas>>
RECURSIVE totales_mes(_, _, _, _, _)
totales_mes(colaboradores_mes, anio, mes_num, hols, acc) ==
    IF DOMAIN colaboradores_mes = {} THEN acc
    ELSE
      LET colab == CHOOSE c \in DOMAIN colaboradores_mes : TRUE
          info == colaboradores_mes[colab]
          resto == [c \in DOMAIN colaboradores_mes \ {colab} |->
                       colaboradores_mes[c]]
          hd == calcular_horas_disponibles(anio, mes_num, hols,
                    info.vacaciones, info.otras_ausencias, BufferPorDefecto)
      IN  totales_mes(resto, anio, mes_num, hols,
              IF ~es_no_productivo(colab)
              THEN <<RAdd(acc[1], hd), RAdd(acc[2], info.horas_estimadas),
                     RAdd(acc[3], info.horas_cargadas)>>
              ELSE acc)

\* lines 578-601: the rows of the detail table, by collaborator
filas_detalle(colaboradores_mes, anio, mes_num, hols) ==
    [colaborador \in {c \in DOMAIN colaboradores_mes : ~es_no_productivo(c)} |->
        LET info == colaboradores_mes[colaborador]
        IN  [vacaciones |-> info.vacaciones,
             otras_ausencias |-> info.otras_ausencias,
             horas_disp |-> calcular_horas_disponibles(anio, mes_num, hols,
                                info.vacaciones, info.otras_ausencias,
                                BufferPorDefecto),
             he |-> info.horas_estimadas,
             hc |-> info.horas_cargadas]]

\* lines 389-408 of main: the month list and the options of the selectbox

\* the labels of NOMBRES_MESES in the order of Python's string comparison
NOMBRES_ALFABETICOS ==
    <<"abril", "agosto", "diciembre", "enero", "febrero", "julio",
      "junio", "marzo", "mayo", "noviembre", "octubre", "septiembre">>

\* list.index(x) of Python, from 0; the list holds x
list_index(lista, x) ==
    (CHOOSE i \in DOMAIN lista :
        lista[i] = x /\ \A j \in 1..(i - 1) : lista[j] # x) - 1

\* line 392 sorting by the label instead of the month number
clave_orden_por_etiqueta(x) == <<x[2], list_index(NOMBRES_ALFABETICOS, x[1])>>

\* line 392: the key of the sort, (int(year), NOMBRES_MESES.index(label))
clave_orden(x) == <<x[2], list_index(NOMBRES_MESES, x[1])>>

\* the comparison of two such tuples
tupla_lt(a, b) == a[1] < b[1] \/ (a[1] = b[1] /\ a[2] < b[2])

\* x is put after the last element whose key is not larger
RECURSIVE insertar_ordenado(_, _)
insertar_ordenado(ordenada, x) ==
    IF ordenada = <<>> THEN <<x>>
    ELSE IF tupla_lt(clave_orden(x), clave_orden(Head(ordenada)))
         THEN <<x>> \o ordenada
         ELSE <<Head(ordenada)>> \o insertar_ordenado(Tail(ordenada), x)

\* lines 390-393: sorted(keys, key=...), a stable sort
RECURSIVE sorted_por_clave(_, _)
sorted_por_clave(keys, ordenada) ==
    IF keys = <<>> THEN ordenada
    ELSE sorted_por_clave(Tail(keys), insertar_ordenado(ordenada, Head(keys)))

\* lista[start:end] of Python for 0 <= start and end <= len(lista)
py_slice(lista, start, end) == SubSeq(lista, start + 1, end)

Max(a, b) == IF a >= b THEN a ELSE b

Min(a, b) == IF a <= b THEN a ELSE b

\* lines 396-398: f"{current_month}-{current_year}" as <<label, year>>
current_month_year_de(now) == <<NOMBRES_MESES[now[2]], now[1]>>

en_lista(lista, x) == \E i \in DOMAIN lista : lista[i] = x

----------------------------------------------------------------------------
(* 3. Specification of the name normalizer *)

NombresBase ==
    DOMAIN NOMBRE_MAPPING \cup EMPLEADOS_NO_PRODUCTIVOS
        \cup { <<>>, <<" ">>, <<"Z","o","e","\t","R","o","c","a">> }

NombreIdle == raw = <<>> /\ norm = <<>> /\ ediciones = 0

TareaIdle ==
    /\ all_tasks = <<>> /\ idx = 1 /\ empleadosPorMes = dict_vacio
    /\ mes_seleccionado = <<>>
    /\ totales = <<RInt(0), RInt(0), RInt(0)>>
    /\ data_rows = dict_vacio

DescargaIdle == fuente = <<>> /\ page = 1 /\ factorial_caido = {}

MesesIdle ==
    /\ claves = <<>> /\ ahora = <<0, 0>> /\ todos_los_meses = <<>>
    /\ meses_mostrados = <<>> /\ default_index = 0

AusenciaIdle ==
    /\ all_ausencias = <<>> /\ festivos_barcelona = {}
    /\ empleado_nombre = <<>> /\ dias_teletrabajo = 0

CapacidadIdle ==
    /\ year = 0 /\ month = 0 /\ holidays_year = <<>>
    /\ dias_laborables = 0 /\ festivos_laborables = 0
    /\ dias_vacaciones = 0 /\ dias_otras_ausencias = 0
    /\ horas_disponibles = RInt(0)


InsertAt(s, i, c) == SubSeq(s, 1, i) \o <<c>> \o SubSeq(s, i + 1, Len(s))

\* a caller hands a name to normalizar_nombre
ElegirNombre ==
    \E b \in NombresBase :
        /\ raw' = b
        /\ norm' = normalizar_nombre(b)
        /\ ediciones' = 0
        /\ op' = "elegir"
        /\ UNCHANGED <<capacidadVars, ausenciaVars, tareaVars, descargaVars,
                   mesesVars>>

\* the same name with the case of one letter changed
CambiarCaja ==
    /\ ediciones < MaxEdiciones
    /\ \E i \in DOMAIN raw :
        /\ char_lower(raw[i]) # char_upper(raw[i])
        /\ raw' = [raw EXCEPT ![i] = IF raw[i] = char_lower(raw[i])
                                     THEN char_upper(raw[i])
                                     ELSE char_lower(raw[i])]
        /\ norm' = normalizar_nombre(raw')
    /\ ediciones' = ediciones + 1
    /\ op' = "caja"
    /\ UNCHANGED <<capacidadVars, ausenciaVars, tareaVars, descargaVars,
                   mesesVars>>

\* the same name with one more leading or trailing whitespace character
EspacioExtremo ==
    /\ ediciones < MaxEdiciones
    /\ \E w \in Whitespace : raw' \in { <<w>> \o raw, raw \o <<w>> }
    /\ norm' = normalizar_nombre(raw')
    /\ ediciones' = ediciones + 1
    /\ op' = "extremo"
    /\ UNCHANGED <<capacidadVars, ausenciaVars, tareaVars, descargaVars,
                   mesesVars>>

\* the same name with one internal whitespace run made longer
AlargarEspacio ==
    /\ ediciones < MaxEdiciones
    /\ \E i \in DOMAIN raw, w \in Whitespace :
        /\ raw[i] \in Whitespace
        /\ raw' = InsertAt(raw, i, w)
    /\ norm' = normalizar_nombre(raw')
    /\ ediciones' = ediciones + 1
    /\ op' = "alargar"
    /\ UNCHANGED <<capacidadVars, ausenciaVars, tareaVars, descargaVars,
                   mesesVars>>

\* the returned identity is normalized again (main, line 510)
Renormalizar ==
    /\ raw # norm
    /\ raw' = norm
    /\ norm' = normalizar_nombre(norm)
    /\ ediciones' = ediciones
    /\ op' = "renormalizar"
    /\ UNCHANGED <<capacidadVars, ausenciaVars, tareaVars, descargaVars,
                   mesesVars>>

InitNombre == op = "init" /\ NombreIdle /\ CapacidadIdle /\ AusenciaIdle
        /\ TareaIdle /\ DescargaIdle /\ MesesIdle

NextNombre ==
    \/ ElegirNombre
    \/ CambiarCaja
    \/ EspacioExtremo
    \/ AlargarEspacio
    \/ Renormalizar

SpecNombre == InitNombre /\ [][NextNombre]_vars

\* C9: normalizar_nombre is idempotent on every name it returned, and the
\* returned identity does not change when the input changes only in letter
\* case, in leading/trailing whitespace or in the length of a whitespace run.
NormalizarIdempotente ==
    [][ /\ normalizar_nombre(norm') = norm'
        /\ (op' \in {"caja", "extremo", "alargar", "renormalizar"} => norm' = norm)
      ]_vars

\* C9 witness: an alias written with capitals and extra whitespace was
\* resolved to its canonical name, which is not an alias key itself.
NormalizarWitness ==
    /\ op \in {"caja", "extremo", "alargar"}
    /\ ediciones = 2
    /\ raw \notin DOMAIN NOMBRE_MAPPING
    /\ norm = NOMBRE_MAPPING[<<"a","l","b","e","r","t"," ","s","u","n","y","e","r">>]

----------------------------------------------------------------------------
(* 4. Specification of the calendar service and the capacity calculator *)

Anios == 2024..(2023 + NumAnios)

\* month and day of the holidays that the modelled holiday lists hold
FechasFestivas == { <<1, 1>>, <<1, 6>>, <<8, 15>> }

Etiquetas == {"festivo", "fiesta local"}

EntradasFestivos(y) ==
    { <<(<<y, md[1], md[2]>>), e>> : md \in FechasFestivas, e \in Etiquetas }

\* the lists cal.holidays(y) can return: sorted by date, a date may appear
\* under more than one label
ListasFestivos(y) ==
    { hs \in UNION { [1..k -> EntradasFestivos(y)] : k \in 0..MaxHolidays } :
        \A i \in 1..(Len(hs) - 1) : date_le(hs[i][1], hs[i + 1][1]) }

\* main, lines 437-443 and 513: a month is selected; its business days and
\* the available hours of an employee without absences are computed
SeleccionarMes ==
    /\ year = 0
    /\ \E y \in Anios, m \in 1..12 :
      \E hols \in ListasFestivos(y) :
        /\ year' = y
        /\ month' = m
        /\ holidays_year' = hols
        /\ dias_laborables' = calcular_dias_laborables_festivos(y, m, hols)[1]
        /\ festivos_laborables' = calcular_dias_laborables_festivos(y, m, hols)[2]
        /\ dias_vacaciones' = 0
        /\ dias_otras_ausencias' = 0
        /\ horas_disponibles' =
               calcular_horas_disponibles(y, m, hols, 0, 0, BufferPorDefecto)
        /\ op' = "seleccionar_mes"
        /\ UNCHANGED <<nombreVars, ausenciaVars, tareaVars, descargaVars,
                   mesesVars>>

\* calcular_horas_disponibles for the same month and one more vacation day
MasVacaciones ==
    /\ year # 0
    /\ dias_vacaciones < MaxVacaciones
    /\ dias_vacaciones' = dias_vacaciones + 1
    /\ horas_disponibles' =
           calcular_horas_disponibles(year, month, holidays_year,
               dias_vacaciones + 1, dias_otras_ausencias, BufferPorDefecto)
    /\ op' = "mas_vacaciones"
    /\ UNCHANGED <<year, month, holidays_year, dias_laborables,
                   festivos_laborables, dias_otras_ausencias, nombreVars,
                   ausenciaVars, tareaVars, descargaVars,
                   mesesVars>>

\* calcular_horas_disponibles for the same month and one more day of
\* other absence
MasOtrasAusencias ==
    /\ year # 0
    /\ dias_otras_ausencias < MaxOtras
    /\ dias_otras_ausencias' = dias_otras_ausencias + 1
    /\ horas_disponibles' =
           calcular_horas_disponibles(year, month, holidays_year,
               dias_vacaciones, dias_otras_ausencias + 1, BufferPorDefecto)
    /\ op' = "mas_otras"
    /\ UNCHANGED <<year, month, holidays_year, dias_laborables,
                   festivos_laborables, dias_vacaciones, nombreVars,
                   ausenciaVars, tareaVars, descargaVars,
                   mesesVars>>

InitCapacidad == op = "init" /\ NombreIdle /\ CapacidadIdle /\ AusenciaIdle
        /\ TareaIdle /\ DescargaIdle /\ MesesIdle

NextCapacidad ==
    \/ SeleccionarMes
    \/ MasVacaciones
    \/ MasOtrasAusencias

SpecCapacidad == InitCapacidad /\ [][NextCapacidad]_vars

\* C1: the available hours are never negative, and one more vacation day or
\* one more day of other absence, the month being the same, never raises them.
HorasMonotonas ==
    [][ /\ horas_disponibles'.d > 0
        /\ horas_disponibles'.n >= 0
        /\ (op' \in {"mas_vacaciones", "mas_otras"}
               => RLe(horas_disponibles', horas_disponibles))
      ]_vars

\* C1 witness: the absence days exceed the net business days of the month
\* after a day was added.
HorasMonotonasWitness ==
    /\ op \in {"mas_vacaciones", "mas_otras"}
    /\ dias_laborables > 0
    /\ dias_otras_ausencias > 0
    /\ dias_vacaciones + dias_otras_ausencias > dias_laborables
    /\ horas_disponibles = RInt(0)

\* a holiday list that holds every Monday-Friday date of the month
RECURSIVE TodosFestivosDesde(_, _, _)
TodosFestivosDesde(y, m, day) ==
    IF day > DaysInMonth(y, m) THEN <<>>
    ELSE (IF weekday(<<y, m, day>>) < 5
          THEN << <<(<<y, m, day>>), "festivo">> >> ELSE <<>>)
         \o TodosFestivosDesde(y, m, day + 1)

\* max(0, netHours - buffer) of the specification, times 10 * netBusinessDays
HorasEsperadasPor10D(D, m, a) ==
    LET h == IF m = 8 THEN 7 ELSE 8
        netHours == D * h - a * h
        x == netHours * 10 * D - netHours * (D - a)
    IN  IF x < 0 THEN 0 ELSE x

\* C2: the result is max(0, netHours - buffer) with 7 hours a day in August
\* and 8 otherwise and the buffer scaled by 1 - absenceFraction; a month
\* without net business days gives 0 and no division by zero; an August of
\* 21 net business days has 147 gross hours.
HorasSegunFormula ==
    year # 0 =>
      LET D == dias_laborables
          a == dias_vacaciones + dias_otras_ausencias
      IN  /\ horas_disponibles.d > 0
          /\ D > 0 => horas_disponibles.n * 10 * D
                          = horas_disponibles.d * HorasEsperadasPor10D(D, month, a)
          /\ (month = 8 /\ D = 21 /\ a = 0)
                 => horas_disponibles = Rat(147 * 9, 10)
          /\ op = "seleccionar_mes" =>
                 \A dv \in 0..MaxOtras, doa \in 0..MaxOtras :
                     calcular_horas_disponibles(year, month,
                         TodosFestivosDesde(year, month, 1), dv, doa,
                         BufferPorDefecto) = RInt(0)

\* C2 witness: an August of 21 net business days with absences.
HorasSegunFormulaWitness ==
    /\ month = 8
    /\ dias_laborables = 21
    /\ dias_vacaciones = 3
    /\ dias_otras_ausencias = 1
    /\ horas_disponibles.n > 0

\* C10: net business days plus working holidays are the Monday-Friday dates
\* of the month, and the working holidays do not exceed them.
DiasLaborablesSuman ==
    year # 0 =>
      LET workingDays ==
              Cardinality({ o \in toordinal(<<year, month, 1>>)
                                  ..toordinal(<<year, month, DaysInMonth(year, month)>>) :
                              (o + 6) % 7 < 5 })
      IN  /\ dias_laborables + festivos_laborables = workingDays
          /\ festivos_laborables <= workingDays
          /\ dias_laborables >= 0

\* C10 witness: one weekday of the month is in the list under two labels.
DiasLaborablesSumanWitness ==
    /\ Len(holidays_year) = 2
    /\ holidays_year[1][1] = holidays_year[2][1]
    /\ holidays_year[1][2] # holidays_year[2][2]
    /\ festivos_laborables = 2

----------------------------------------------------------------------------
(* 5. Specification of the absence classifier *)

\* the first day of the window in which the modelled leaves start and end
VentanaInicio == <<2024, 12, 23>>

RECURSIVE DiasDesde(_, _)
DiasDesde(f, k) == IF k = 0 THEN {} ELSE {f} \cup DiasDesde(siguiente_dia(f), k - 1)

FechasVentana == DiasDesde(VentanaInicio, DiasVentana)

\* the dates of the leaves of the lists that hold more than one leave
FechasSueltas == { <<2025, 1, 30>>, <<2025, 2, 4>> }

\* holidays of Catalonia inside the window
FestivosCT ==
    { <<2024, 12, 25>>, <<2024, 12, 26>>, <<2025, 1, 1>>, <<2025, 1, 6>> }

FestivosPosibles == { {}, FestivosCT }

AlbertAlias == <<"A","l","b","e","r","t"," "," ","S","U","N","Y","E","R">>

AlbertCanonico == NOMBRE_MAPPING[<<"a","l","b","e","r","t"," ","s","u","n","y","e","r">>]

CeliaRaw == <<"C","e","l","i","a"," ","H","e","n","r","i","q","u","e","z">>

TiposAusencia == ids_no_descuentan \cup {ID_VACACIONES, ID_VACACIONES + 1, SinTipo}

Ausencia(nombre, inicio, fin, tipo) ==
    [employee_full_name |-> nombre, start_on |-> inicio, finish_on |-> fin,
     leave_type_id |-> tipo]

\* one leave of one employee with any start and end in the window
AusenciasDensas ==
    { << Ausencia(AlbertAlias, rango[1], rango[2], ID_VACACIONES) >> :
          rango \in {r \in FechasVentana \X FechasVentana : date_le(r[1], r[2])} }

\* the leaves of the lists that hold any number of leaves: the employee's,
\* of every type, and another employee's
AusenciasSueltas ==
    { Ausencia(AlbertAlias, rango[1], rango[2], t) :
          rango \in {r \in FechasSueltas \X FechasSueltas :
                        date_le(r[1], r[2]) /\ periodo(r[2]) = <<2025, 2>>},
          t \in TiposAusencia }
      \cup { Ausencia(CeliaRaw, <<2025, 1, 30>>, <<2025, 2, 4>>, t) :
                t \in ids_no_descuentan \cup {ID_VACACIONES} }

AusenciasPosibles ==
    AusenciasDensas
        \cup UNION { [1..k -> AusenciasSueltas] : k \in 0..MaxAusencias }

MesesObjetivo == { <<2024, 12>>, <<2025, 1>>, <<2025, 2>> }

\* the list cal.holidays(y) of this specification
HolidaysDe(y) ==
    << <<(<<y, 1, 1>>), "festivo">>, <<(<<y, 1, 6>>), "festivo">>,
       <<(<<y, 8, 15>>), "festivo">> >>

\* descargar_datos, lines 313-316: the absences of one employee and month
CalcularAusencias ==
    /\ op = "init"
    /\ \E emp \in {AlbertCanonico, CeliaRaw}, p \in MesesObjetivo :
        \E r \in { calcular_ausencias_empleado(emp, p[1], p[2], all_ausencias,
                                                festivos_barcelona) } :
            /\ empleado_nombre' = emp
            /\ year' = p[1]
            /\ month' = p[2]
            /\ dias_vacaciones' = r[1]
            /\ dias_otras_ausencias' = r[2]
            /\ dias_teletrabajo' = r[3]
    /\ op' = "ausencias"
    /\ UNCHANGED <<all_ausencias, festivos_barcelona, holidays_year,
                   dias_laborables, festivos_laborables, horas_disponibles,
                   nombreVars, tareaVars, descargaVars,
                   mesesVars>>

\* main, lines 437-443 and 579-585: the detail row of the employee
FilaDetalle ==
    /\ op = "ausencias"
    /\ holidays_year' = HolidaysDe(year)
    /\ dias_laborables' =
           calcular_dias_laborables_festivos(year, month, HolidaysDe(year))[1]
    /\ festivos_laborables' =
           calcular_dias_laborables_festivos(year, month, HolidaysDe(year))[2]
    /\ horas_disponibles' =
           calcular_horas_disponibles(year, month, HolidaysDe(year),
               dias_vacaciones, dias_otras_ausencias, BufferPorDefecto)
    /\ op' = "detalle"
    /\ UNCHANGED <<year, month, dias_vacaciones, dias_otras_ausencias,
                   ausenciaVars, nombreVars, tareaVars, descargaVars,
                   mesesVars>>

InitAusencias ==
    /\ op = "init"
    /\ NombreIdle
    /\ CapacidadIdle
    /\ all_ausencias \in AusenciasPosibles
    /\ festivos_barcelona \in FestivosPosibles
    /\ empleado_nombre = <<>>
    /\ dias_teletrabajo = 0
    /\ TareaIdle /\ DescargaIdle /\ MesesIdle

NextAusencias ==
    \/ CalcularAusencias
    \/ FilaDetalle

SpecAusencias == InitAusencias /\ [][NextAusencias]_vars

\* the working days (Monday-Friday, no holiday) of leave a inside month p,
\* counted over the ordinals of the dates
DiasDeAusenciaEnMes(a, p, festivos) ==
    LET primero == toordinal(<<p[1], p[2], 1>>)
        ultimo == toordinal(<<p[1], p[2], DaysInMonth(p[1], p[2])>>)
        desde == IF toordinal(a.start_on) > primero
                 THEN toordinal(a.start_on) ELSE primero
        hasta == IF toordinal(a.finish_on) < ultimo
                 THEN toordinal(a.finish_on) ELSE ultimo
    IN  Cardinality({ o \in desde..hasta :
                        /\ (o + 6) % 7 < 5
                        /\ \A f \in festivos : toordinal(f) # o })

\* every month from p to q
RECURSIVE MesesEntre(_, _)
MesesEntre(p, q) ==
    IF periodo_lt(q, p) THEN <<>>
    ELSE <<p>> \o MesesEntre(IF p[2] < 12 THEN <<p[1], p[2] + 1>>
                             ELSE <<p[1] + 1, 1>>, q)

RECURSIVE Suma(_)
Suma(s) == IF s = <<>> THEN 0 ELSE Head(s) + Suma(Tail(s))

Total(r) == r[1] + r[2] + r[3]

\* C3: the days of a leave attributed to the target month are its working
\* days inside that month, and over the months the leave touches they add up
\* to the working days of the whole leave.
AusenciaRepartidaPorMes ==
    (op = "ausencias" /\ Len(all_ausencias) = 1
       /\ normalizar_nombre(all_ausencias[1].employee_full_name)
              = normalizar_nombre(empleado_nombre)
       /\ date_le(all_ausencias[1].start_on, all_ausencias[1].finish_on))
    =>
      LET a == all_ausencias[1]
          meses == MesesEntre(periodo(a.start_on), periodo(a.finish_on))
      IN  \A por_mes \in
                 { [i \in DOMAIN meses |->
                       Total(calcular_ausencias_empleado(empleado_nombre,
                                 meses[i][1], meses[i][2], all_ausencias,
                                 festivos_barcelona))] } :
          /\ dias_vacaciones + dias_otras_ausencias + dias_teletrabajo
                 = DiasDeAusenciaEnMes(a, <<year, month>>, festivos_barcelona)
          /\ \A i \in DOMAIN meses :
                 por_mes[i] = DiasDeAusenciaEnMes(a, meses[i], festivos_barcelona)
          /\ Suma(por_mes)
                 = Cardinality({ o \in toordinal(a.start_on)..toordinal(a.finish_on) :
                                   /\ (o + 6) % 7 < 5
                                   /\ \A f \in festivos_barcelona : toordinal(f) # o })

\* C3 witness: a leave that starts in December and ends in February, seen
\* from January, with holidays in its range.
AusenciaRepartidaPorMesWitness ==
    /\ op = "ausencias"
    /\ Len(all_ausencias) = 1
    /\ empleado_nombre = AlbertCanonico
    /\ periodo(all_ausencias[1].start_on) = <<2024, 12>>
    /\ periodo(all_ausencias[1].finish_on) = <<2025, 2>>
    /\ <<year, month>> = <<2025, 1>>
    /\ festivos_barcelona # {}
    /\ dias_vacaciones = 21

\* the sum of the working days inside month p of the leaves of all_aus that
\* belong to emp and whose type is in tipos
RECURSIVE DiasPorTipos(_, _, _, _, _)
DiasPorTipos(all_aus, emp, p, festivos, tipos) ==
    IF all_aus = <<>> THEN 0
    ELSE (IF /\ normalizar_nombre(Head(all_aus).employee_full_name)
                    = normalizar_nombre(emp)
             /\ Head(all_aus).leave_type_id \in tipos
          THEN DiasDeAusenciaEnMes(Head(all_aus), p, festivos) ELSE 0)
         + DiasPorTipos(Tail(all_aus), emp, p, festivos, tipos)

\* C4: the target-month days of each leave of the employee go to exactly
\* one bucket: remote credit for the non-deducting types, vacation for
\* ID_VACACIONES, other absence for the rest; other employees' leaves go to
\* none.
AusenciasClasificadas ==
    op = "ausencias" =>
      LET p == <<year, month>>
          D(tipos) == DiasPorTipos(all_ausencias, empleado_nombre, p,
                                   festivos_barcelona, tipos)
      IN  /\ dias_teletrabajo = D(ids_no_descuentan)
          /\ dias_vacaciones = D({ID_VACACIONES})
          /\ dias_otras_ausencias
                 = D(TiposAusencia \ (ids_no_descuentan \cup {ID_VACACIONES}))
          /\ dias_vacaciones + dias_otras_ausencias + dias_teletrabajo
                 = D(TiposAusencia)
          /\ (\A i \in DOMAIN all_ausencias :
                  normalizar_nombre(all_ausencias[i].employee_full_name)
                      # normalizar_nombre(empleado_nombre))
                 => (dias_vacaciones = 0 /\ dias_otras_ausencias = 0
                        /\ dias_teletrabajo = 0)

\* C4 witness: the employee has a leave without type id next to a leave of
\* another employee, and the days went to other absences.
AusenciasClasificadasWitness ==
    /\ op = "ausencias"
    /\ Len(all_ausencias) = 2
    /\ empleado_nombre = AlbertCanonico
    /\ all_ausencias[1].employee_full_name = CeliaRaw
    /\ all_ausencias[2].employee_full_name = AlbertAlias
    /\ all_ausencias[2].leave_type_id = SinTipo
    /\ dias_otras_ausencias > 0
    /\ dias_vacaciones = 0

SinTeletrabajo(all_aus) ==
    SelectSeq(all_aus, LAMBDA a : a.leave_type_id \notin ids_no_descuentan)

\* C5: without its leaves of a non-deducting type the leave list gives the
\* same vacation and other-absence days and the same available hours; only
\* the remote-work days differ.
TeletrabajoNoDescuenta ==
    op \in {"ausencias", "detalle"} =>
      \A r \in { calcular_ausencias_empleado(empleado_nombre, year, month,
                      SinTeletrabajo(all_ausencias), festivos_barcelona) } :
          /\ r[1] = dias_vacaciones
          /\ r[2] = dias_otras_ausencias
          /\ r[3] = 0
          /\ op = "detalle" =>
                 horas_disponibles
                     = calcular_horas_disponibles(year, month, holidays_year,
                           r[1], r[2], BufferPorDefecto)

\* C5 witness: the employee has remote-work days and a vacation in the
\* month, and the detail row was computed.
TeletrabajoNoDescuentaWitness ==
    /\ op = "detalle"
    /\ dias_teletrabajo > 0
    /\ dias_vacaciones > 0
    /\ horas_disponibles.n > 0

----------------------------------------------------------------------------
(* 6. Specification of the task aggregator and the dashboard totals *)

Colab(first, last) == [first_name |-> first, last_name |-> last]

AlbertCorto == Colab(<<"A","l","b","e","r","t">>, <<"S","u","n","y","e","r">>)

AlbertLargo ==
    Colab(<<"a","l","b","e","r","t">>,
          <<"s","u","n","y","e","r"," ","v","i","l","a","f","r","a","n","c","a">>)

CeliaColab == Colab(<<"C","e","l","i","a">>, <<"H","e","n","r","i","q","u","e","z">>)

ZoeColab == Colab(<<"Z","o","e">>, <<>>)

\* the collaborator lists of the modelled tasks
ListasColaboradores ==
    { <<>>, <<AlbertCorto>>, <<ZoeColab, CeliaColab>>,
      <<AlbertLargo, AlbertCorto, CeliaColab>> }

\* the datetime of the modelled tasks as <<year, month, day>>; <<>>: none
FechasTarea == { <<>>, <<2025, 3, 14>>, <<2025, 8, 1>> }

\* <<hour_charged, estimated>> of the modelled tasks
HorasTarea == { <<10, 120>>, <<7, 0>> }

TareasPosibles ==
    { [datetime |-> dt, hour_charged |-> h[1], estimated |-> h[2],
       collaborators |-> cs] :
          dt \in FechasTarea, h \in HorasTarea, cs \in ListasColaboradores }

\* the leaves Factorial holds while the tasks are aggregated
AusenciasTareas ==
    << Ausencia(AlbertAlias, <<2025, 3, 3>>, <<2025, 3, 5>>, ID_VACACIONES),
       Ausencia(CeliaRaw, <<2025, 3, 10>>, <<2025, 3, 10>>, ID_VACACIONES),
       Ausencia(AlbertAlias, <<2025, 8, 4>>, <<2025, 8, 5>>, 2280065),
       Ausencia(AlbertAlias, <<2025, 8, 6>>, <<2025, 8, 6>>, SinTipo) >>

InitTareas ==
    /\ op = "init"
    /\ NombreIdle
    /\ CapacidadIdle
    /\ all_ausencias = AusenciasTareas
    /\ festivos_barcelona = {}
    /\ empleado_nombre = <<>>
    /\ dias_teletrabajo = 0
    /\ all_tasks \in UNION { [1..k -> TareasPosibles] : k \in 0..MaxTareas }
    /\ idx = 1
    /\ empleadosPorMes = dict_vacio
    /\ mes_seleccionado = <<>>
    /\ totales = <<RInt(0), RInt(0), RInt(0)>>
    /\ data_rows = dict_vacio
    /\ DescargaIdle
    /\ MesesIdle

\* descargar_datos, lines 259-302: the next task of all_tasks is aggregated
ProcesarTarea ==
    /\ op \in {"init", "paginado", "tarea"}
    /\ idx <= Len(all_tasks)
    /\ empleadosPorMes' = agregar_tarea(empleadosPorMes, all_tasks[idx])
    /\ idx' = idx + 1
    /\ op' = "tarea"
    /\ UNCHANGED <<all_tasks, mes_seleccionado, totales, data_rows,
                   nombreVars, capacidadVars, ausenciaVars,
                   descargaVars, mesesVars>>

\* descargar_datos, lines 304-326: the loop is over, the absences are added
\* and the report is returned
AnadirAusencias ==
    /\ op \in {"init", "paginado", "tarea"}
    /\ idx > Len(all_tasks)
    /\ empleadosPorMes' =
           anadir_ausencias(empleadosPorMes, all_tasks, all_ausencias,
                            festivos_barcelona, factorial_caido)
    /\ op' = "datos"
    /\ UNCHANGED <<all_tasks, idx, mes_seleccionado, totales, data_rows,
                   nombreVars, capacidadVars, ausenciaVars,
                   descargaVars, mesesVars>>

\* main, lines 385-387: there is no report
SinDatos ==
    /\ op = "datos"
    /\ DOMAIN empleadosPorMes = {}
    /\ op' = "sin_datos"
    /\ UNCHANGED <<tareaVars, nombreVars, capacidadVars, ausenciaVars,
                   descargaVars, mesesVars>>

\* main, lines 431-434: the selected month has no collaborators
MesSinColaboradores ==
    /\ op = "datos"
    /\ \E ms \in DOMAIN empleadosPorMes :
        /\ DOMAIN empleadosPorMes[ms] = {}
        /\ mes_seleccionado' = ms
    /\ op' = "sin_colaboradores"
    /\ UNCHANGED <<all_tasks, idx, empleadosPorMes, totales, data_rows,
                   nombreVars, capacidadVars, ausenciaVars,
                   descargaVars, mesesVars>>

\* main, lines 431-601: a month is selected; its totals and its detail
\* table are computed
Dashboard ==
    /\ op = "datos"
    /\ \E ms \in DOMAIN empleadosPorMes :
        /\ DOMAIN empleadosPorMes[ms] # {}
        /\ mes_seleccionado' = ms
        /\ year' = ms[2]
        /\ month' = mes_de(ms)
        /\ holidays_year' = HolidaysDe(ms[2])
        /\ \E dlf \in { calcular_dias_laborables_festivos(ms[2], mes_de(ms),
                                                          HolidaysDe(ms[2])) } :
              /\ dias_laborables' = dlf[1]
              /\ festivos_laborables' = dlf[2]
        /\ totales' = totales_mes(empleadosPorMes[ms], ms[2], mes_de(ms),
                          HolidaysDe(ms[2]), <<RInt(0), RInt(0), RInt(0)>>)
        /\ data_rows' = filas_detalle(empleadosPorMes[ms], ms[2], mes_de(ms),
                            HolidaysDe(ms[2]))
    /\ op' = "dashboard"
    /\ UNCHANGED <<all_tasks, idx, empleadosPorMes, dias_vacaciones,
                   dias_otras_ausencias, horas_disponibles, nombreVars,
                   ausenciaVars, descargaVars, mesesVars>>

NextTareas ==
    \/ ProcesarTarea
    \/ AnadirAusencias
    \/ SinDatos
    \/ MesSinColaboradores
    \/ Dashboard

SpecTareas == InitTareas /\ [][NextTareas]_vars

RECURSIVE RSuma(_)
RSuma(s) == IF s = <<>> THEN RInt(0) ELSE RAdd(Head(s), RSuma(Tail(s)))

RECURSIVE RSumaDict(_)
RSumaDict(d) ==
    IF DOMAIN d = {} THEN RInt(0)
    ELSE LET k == CHOOSE k \in DOMAIN d : TRUE
         IN  RAdd(d[k], RSumaDict([x \in DOMAIN d \ {k} |-> d[x]]))

Cargadas(epm, s, c) ==
    IF s \in DOMAIN epm /\ c \in DOMAIN epm[s]
    THEN epm[s][c].horas_cargadas ELSE RInt(0)

Estimadas(epm, s, c) ==
    IF s \in DOMAIN epm /\ c \in DOMAIN epm[s]
    THEN epm[s][c].horas_estimadas ELSE RInt(0)

\* the entries of the collaborator list of t whose identity is c
Veces(t, c) ==
    Cardinality({i \in DOMAIN t.collaborators :
                    colab_name_de(t.collaborators[i]) = c})

\* task t has a datetime in month s and at least one collaborator
CuentaEnMes(t, s) ==
    /\ t.datetime # <<>>
    /\ Len(t.collaborators) >= 1
    /\ sheet_name_de(t.datetime) = s

\* C6: a task with a datetime and n >= 1 collaborators adds hour_charged / n
\* and estimated / 60 / n to the identity of each list entry, once per
\* entry; per month the hours of the employees add up to the hours of the
\* tasks of the month that have collaborators.
HorasRepartidas ==
    [][ op' = "tarea" =>
          LET t == all_tasks[idx]
              n == Len(t.collaborators)
              hechas == SubSeq(all_tasks, 1, idx)
          IN  /\ (t.datetime # <<>> /\ n >= 1) =>
                   LET s == sheet_name_de(t.datetime)
                   IN  /\ s \in DOMAIN empleadosPorMes'
                       /\ \A i \in DOMAIN t.collaborators :
                              colab_name_de(t.collaborators[i])
                                  \in DOMAIN empleadosPorMes'[s]
                       /\ \A c \in DOMAIN empleadosPorMes'[s] :
                            /\ Cargadas(empleadosPorMes', s, c)
                                 = RAdd(Cargadas(empleadosPorMes, s, c),
                                        Rat(Veces(t, c) * t.hour_charged, n))
                            /\ Estimadas(empleadosPorMes', s, c)
                                 = RAdd(Estimadas(empleadosPorMes, s, c),
                                        Rat(Veces(t, c) * t.estimated, 60 * n))
              /\ \A s \in DOMAIN empleadosPorMes' :
                   /\ RSumaDict([c \in DOMAIN empleadosPorMes'[s] |->
                                    empleadosPorMes'[s][c].horas_cargadas])
                        = RSuma([j \in DOMAIN hechas |->
                                    IF CuentaEnMes(hechas[j], s)
                                    THEN RInt(hechas[j].hour_charged)
                                    ELSE RInt(0)])
                   /\ RSumaDict([c \in DOMAIN empleadosPorMes'[s] |->
                                    empleadosPorMes'[s][c].horas_estimadas])
                        = RSuma([j \in DOMAIN hechas |->
                                    IF CuentaEnMes(hechas[j], s)
                                    THEN Rat(hechas[j].estimated, 60)
                                    ELSE RInt(0)])
      ]_vars

\* C6 witness: the second task of a month was shared by three list entries,
\* two of them the same identity, which now holds hours of both tasks.
HorasRepartidasWitness ==
    /\ op = "tarea"
    /\ idx = 3
    /\ Len(all_tasks[2].collaborators) = 3
    /\ all_tasks[1].datetime = all_tasks[2].datetime
    /\ all_tasks[1].datetime # <<>>
    /\ all_tasks[1].collaborators = <<AlbertCorto>>
    /\ all_tasks[1].hour_charged = 7
    /\ all_tasks[2].hour_charged = 10
    /\ Cargadas(empleadosPorMes, sheet_name_de(all_tasks[2].datetime),
                AlbertCanonico) = Rat(7 * 3 + 2 * 10, 3)

Permutar(s, p) == [i \in DOMAIN s |-> s[p[i]]]

Productivos(t) ==
    Cardinality({i \in DOMAIN t.collaborators :
                    colab_name_de(t.collaborators[i])
                        \notin EMPLEADOS_NO_PRODUCTIVOS})

\* C8: a denylisted employee adds nothing to the totals of the month and has
\* no detail row; the other collaborators of its tasks keep hour_charged / n
\* and estimated / 60 / n with n counting the denylisted one.
NoProductivosExcluidos ==
    op = "dashboard" =>
      LET s == mes_seleccionado
          productivos == DOMAIN empleadosPorMes[s] \ EMPLEADOS_NO_PRODUCTIVOS
      IN  /\ DOMAIN data_rows = productivos
          /\ totales[3]
               = RSuma([j \in DOMAIN all_tasks |->
                           IF CuentaEnMes(all_tasks[j], s)
                           THEN Rat(Productivos(all_tasks[j])
                                        * all_tasks[j].hour_charged,
                                    Len(all_tasks[j].collaborators))
                           ELSE RInt(0)])
          /\ totales[2]
               = RSuma([j \in DOMAIN all_tasks |->
                           IF CuentaEnMes(all_tasks[j], s)
                           THEN Rat(Productivos(all_tasks[j])
                                        * all_tasks[j].estimated,
                                    60 * Len(all_tasks[j].collaborators))
                           ELSE RInt(0)])
          /\ totales[1]
               = RSumaDict([c \in productivos |->
                     calcular_horas_disponibles(year, month, holidays_year,
                         empleadosPorMes[s][c].vacaciones,
                         empleadosPorMes[s][c].otras_ausencias,
                         BufferPorDefecto)])
          /\ \A c \in productivos :
               /\ data_rows[c].hc = empleadosPorMes[s][c].horas_cargadas
               /\ data_rows[c].he = empleadosPorMes[s][c].horas_estimadas

\* C8 witness: a task of the selected month was shared by a denylisted
\* employee and another one, who has a detail row.
NoProductivosExcluidosWitness ==
    /\ op = "dashboard"
    /\ Len(all_tasks) = 1
    /\ all_tasks[1].collaborators = <<ZoeColab, CeliaColab>>
    /\ all_tasks[1].hour_charged = 10
    /\ DOMAIN data_rows = {<<"z","o","e">>}
    /\ totales[3] = RInt(5)
    /\ totales[2] = RInt(1)

----------------------------------------------------------------------------
(* 7. Tasks that the aggregation loop skips *)

\* C12, as claimed: a task with no timestamp or with no collaborators leaves
\* the report as it was, and every month key of the report, and of the
\* result of descargar_datos, has at least one employee record.
TareaOmitidaSinEfecto ==
    [][ /\ op' = "tarea" =>
              LET t == all_tasks[idx]
              IN  /\ (t.datetime = <<>> \/ t.collaborators = <<>>)
                         => empleadosPorMes' = empleadosPorMes
                  /\ \A s \in DOMAIN empleadosPorMes' :
                         DOMAIN empleadosPorMes'[s] # {}
        /\ op' = "datos" =>
              \A s \in DOMAIN empleadosPorMes' :
                  DOMAIN empleadosPorMes'[s] # {}
      ]_vars

\* C12, amended: a task with no timestamp leaves the report as it was; a
\* task with a timestamp and no collaborators adds no employee record and
\* changes no record, but creates its month key, without employee records,
\* when the report does not hold it; a month key has no employee record
\* exactly when no task of the month had collaborators.
TareaOmitida ==
    [][ /\ op' = "tarea" =>
              LET t == all_tasks[idx]
                  hechas == SubSeq(all_tasks, 1, idx)
              IN  /\ t.datetime = <<>> => empleadosPorMes' = empleadosPorMes
                  /\ (t.datetime # <<>> /\ t.collaborators = <<>>) =>
                        LET s == sheet_name_de(t.datetime)
                        IN  /\ DOMAIN empleadosPorMes'
                                   = DOMAIN empleadosPorMes \cup {s}
                            /\ \A k \in DOMAIN empleadosPorMes :
                                   empleadosPorMes'[k] = empleadosPorMes[k]
                            /\ s \notin DOMAIN empleadosPorMes =>
                                   DOMAIN empleadosPorMes'[s] = {}
                  /\ \A s \in DOMAIN empleadosPorMes' :
                         DOMAIN empleadosPorMes'[s] = {}
                            <=> ~\E j \in DOMAIN hechas :
                                     CuentaEnMes(hechas[j], s)
        /\ op' = "datos" =>
              /\ DOMAIN empleadosPorMes' = DOMAIN empleadosPorMes
              /\ \A s \in DOMAIN empleadosPorMes' :
                     DOMAIN empleadosPorMes'[s] = DOMAIN empleadosPorMes[s]
      ]_vars

\* C12 witness: the only task aggregated has a timestamp and no
\* collaborators, and the report holds its month without employee records.
TareaOmitidaWitness ==
    /\ op = "tarea"
    /\ idx = 2
    /\ all_tasks[1].datetime = <<2025, 3, 14>>
    /\ all_tasks[1].collaborators = <<>>
    /\ DOMAIN empleadosPorMes = {<<"marzo", 2025>>}
    /\ DOMAIN empleadosPorMes[<<"marzo", 2025>>] = {}

----------------------------------------------------------------------------
(* 8. Specification of a refresh: descargar_datos from the token to the    *)
(*    report                                                               *)

\* <<hour_charged, estimated>> of the tasks COR holds
HorasFuente == { <<10, 120>>, <<0, 0>>, <<5, -60>> }

TareasFuente ==
    { [datetime |-> dt, hour_charged |-> h[1], estimated |-> h[2],
       collaborators |-> cs] :
          dt \in { <<2025, 3, 14>>, <<2025, 8, 1>> }, h \in HorasFuente,
          cs \in { <<ZoeColab, AlbertCorto>>, <<AlbertCorto>> } }

\* data["data"] of a page that holds tasks
PaginasPosibles ==
    { <<t>> : t \in TareasFuente }
        \cup { << [datetime |-> <<2025, 3, 14>>, hour_charged |-> 0,
                   estimated |-> 0, collaborators |-> <<AlbertCorto>>],
                  [datetime |-> <<2025, 3, 14>>, hour_charged |-> 7,
                   estimated |-> 0, collaborators |-> <<AlbertCorto>>] >> }

ZoeRaw == <<"Z","o","e">>

\* the leaves of Factorial: Albert's, and one of Zoe
AusenciasDeAlbert ==
    << Ausencia(AlbertAlias, <<2025, 3, 3>>, <<2025, 3, 5>>, ID_VACACIONES),
       Ausencia(AlbertAlias, <<2025, 8, 4>>, <<2025, 8, 5>>, 2280065) >>

\* what Factorial holds, and the employees for whom the fetch of the leaves
\* fails: Zoe's leave is well formed, lacks start_on, or has a start_on
\* that is no date
Escenarios ==
    { [aus |-> AusenciasDeAlbert \o
                 << Ausencia(ZoeRaw, <<2025, 3, 10>>, <<2025, 3, 11>>,
                             ID_VACACIONES) >>,
       caidos |-> {}],
      [aus |-> AusenciasDeAlbert \o
                 << [employee_full_name |-> ZoeRaw,
                     finish_on |-> <<2025, 3, 11>>,
                     leave_type_id |-> ID_VACACIONES] >>,
       caidos |-> {}],
      [aus |-> AusenciasDeAlbert \o
                 << Ausencia(ZoeRaw, <<2025, 2, 30>>, <<2025, 3, 11>>,
                             ID_VACACIONES) >>,
       caidos |-> {}],
      [aus |-> AusenciasDeAlbert \o
                 << Ausencia(ZoeRaw, <<2025, 3, 10>>, <<2025, 3, 11>>,
                             ID_VACACIONES) >>,
       caidos |-> {normalizar_nombre(ZoeRaw)}] }

InitDescarga ==
    /\ op = "inicio"
    /\ NombreIdle
    /\ CapacidadIdle
    /\ TareaIdle
    /\ MesesIdle
    /\ \E e \in Escenarios :
          /\ all_ausencias = e.aus
          /\ factorial_caido = e.caidos
    /\ festivos_barcelona = {}
    /\ empleado_nombre = <<>>
    /\ dias_teletrabajo = 0
    /\ fuente \in UNION { [1..k -> PaginasPosibles] : k \in 0..MaxPaginas }
    /\ page = 1

\* lines 235-238: obtener_token_cor returned a token
ObtenerToken ==
    /\ op = "inicio"
    /\ op' = "token"
    /\ UNCHANGED <<nombreVars, capacidadVars, ausenciaVars, tareaVars,
                   descargaVars, mesesVars>>

\* lines 236-238: obtener_token_cor returned None, descargar_datos returns {}
TokenFallido ==
    /\ op = "inicio"
    /\ op' = "sin_token"
    /\ UNCHANGED <<nombreVars, capacidadVars, ausenciaVars, tareaVars,
                   descargaVars, mesesVars>>

\* lines 245-256: COR answers 200 with a page that holds tasks
PaginaObtenida ==
    /\ op \in {"token", "pagina"}
    /\ page <= Len(fuente)
    /\ all_tasks' = all_tasks \o filtrar(fuente[page])
    /\ page' = page + 1
    /\ op' = "pagina"
    /\ UNCHANGED <<idx, empleadosPorMes, mes_seleccionado, totales, data_rows,
                   fuente, factorial_caido, nombreVars, capacidadVars,
                   ausenciaVars, mesesVars>>

\* lines 245-251: COR answers 200 with an empty page: the loop ends
PaginaVacia ==
    /\ op \in {"token", "pagina"}
    /\ page > Len(fuente)
    /\ op' = "paginado"
    /\ UNCHANGED <<nombreVars, capacidadVars, ausenciaVars, tareaVars,
                   descargaVars, mesesVars>>

\* lines 107-111 and 246-247: COR does not answer 200, obtener_tareas_cor
\* returns None: the loop ends
PaginaFallida ==
    /\ op \in {"token", "pagina"}
    /\ op' = "paginado"
    /\ UNCHANGED <<nombreVars, capacidadVars, ausenciaVars, tareaVars,
                   descargaVars, mesesVars>>

\* line 105: requests.get raises, and so does descargar_datos
PaginaExcepcion ==
    /\ op \in {"token", "pagina"}
    /\ op' = "excepcion"
    /\ UNCHANGED <<nombreVars, capacidadVars, ausenciaVars, tareaVars,
                   descargaVars, mesesVars>>

NextDescarga ==
    \/ ObtenerToken
    \/ TokenFallido
    \/ PaginaObtenida
    \/ PaginaVacia
    \/ PaginaFallida
    \/ PaginaExcepcion
    \/ ProcesarTarea
    \/ AnadirAusencias
    \/ SinDatos

SpecDescarga == InitDescarga /\ [][NextDescarga]_vars

RECURSIVE Aplanar(_)
Aplanar(paginas) ==
    IF paginas = <<>> THEN <<>> ELSE Head(paginas) \o Aplanar(Tail(paginas))

\* C14: a refresh gives a report built from every page of tasks the source
\* holds, or no report: never a report built from the pages fetched before
\* a page failed.
RefrescoCompleto ==
    op = "datos" =>
        \/ DOMAIN empleadosPorMes = {}
        \/ all_tasks = filtrar(Aplanar(fuente))

\* the absence days an employee record holds
DiasDe(registro) ==
    <<registro.vacaciones, registro.otras_ausencias, registro.teletrabajo>>

\* C11: when the classification of one (employee, month) fails, whatever the
\* failure, its three day counts are 0, and every other employee of the
\* month and every other month holds the days of its own leaves.
FalloAislado ==
    op = "datos" =>
      \A s \in DOMAIN empleadosPorMes :
        \A c \in DOMAIN empleadosPorMes[s] :
          \A r \in { IF c \in factorial_caido THEN HTTPError
                      ELSE calcular_ausencias_empleado(c, s[2], mes_de(s),
                               all_ausencias, festivos_barcelona) } :
             DiasDe(empleadosPorMes[s][c])
                 = IF es_excepcion(r) THEN <<0, 0, 0>> ELSE r

NoNegativa(t) == t.hour_charged >= 0 /\ t.estimated >= 0

\* every record holds hours >= 0
RegistrosNoNegativos(epm) ==
    \A s \in DOMAIN epm :
        \A c \in DOMAIN epm[s] :
            /\ RLe(RInt(0), epm[s][c].horas_cargadas)
            /\ RLe(RInt(0), epm[s][c].horas_estimadas)

\* no total of epm is larger than in epm2
NoDecrece(epm, epm2) ==
    \A s \in DOMAIN epm :
        \A c \in DOMAIN epm[s] :
            /\ RLe(epm[s][c].horas_cargadas, Cargadas(epm2, s, c))
            /\ RLe(epm[s][c].horas_estimadas, Estimadas(epm2, s, c))

\* C13, as claimed: after any tasks the filter admits, every record holds
\* charged and estimated hours >= 0 and no total decreases.
HorasFiltradasNoNegativas ==
    [][ op' = "tarea" =>
          /\ RegistrosNoNegativos(empleadosPorMes')
          /\ NoDecrece(empleadosPorMes, empleadosPorMes')
      ]_vars

\* C13, amended: a task whose hour_charged and estimated are both >= 0
\* decreases no total, and after tasks that are all so every record holds
\* charged and estimated hours >= 0.
HorasNoNegativas ==
    [][ op' = "tarea" =>
          /\ NoNegativa(all_tasks[idx])
                => NoDecrece(empleadosPorMes, empleadosPorMes')
          /\ (\A j \in 1..idx : NoNegativa(all_tasks[j]))
                => RegistrosNoNegativos(empleadosPorMes')
      ]_vars

\* C13 witness: two tasks without negative hours raised the charged hours
\* of an employee of March 2025 twice.
HorasNoNegativasWitness ==
    /\ op = "tarea"
    /\ idx = 3
    /\ NoNegativa(all_tasks[1])
    /\ NoNegativa(all_tasks[2])
    /\ all_tasks[1].hour_charged = 10
    /\ all_tasks[2].hour_charged = 7
    /\ Cargadas(empleadosPorMes, <<"marzo", 2025>>, AlbertCanonico) = RInt(12)

----------------------------------------------------------------------------
(* 9. Specification of the month list of main *)

\* month keys a report may hold
ClavesPosibles ==
    { <<"diciembre", 2024>>, <<"enero", 2025>>, <<"febrero", 2025>>,
      <<"marzo", 2025>>, <<"abril", 2025>>, <<"mayo", 2025>>,
      <<"agosto", 2025>> }

\* datetime.now() as <<year, month>>
AhoraPosibles == { <<2025, 1>>, <<2025, 4>>, <<2025, 8>>, <<2025, 10>> }

\* the keys of a dict are different
SinRepetidos(seq) ==
    \A i, j \in DOMAIN seq : i # j => seq[i] # seq[j]

InitMeses ==
    /\ op = "init"
    /\ NombreIdle /\ CapacidadIdle /\ AusenciaIdle /\ TareaIdle /\ DescargaIdle
    /\ claves \in { q \in UNION { [1..k -> ClavesPosibles] : k \in 1..MaxMeses } :
                       SinRepetidos(q) }
    /\ ahora \in AhoraPosibles
    /\ todos_los_meses = <<>>
    /\ meses_mostrados = <<>>
    /\ default_index = 0

\* main, lines 389-393
OrdenarMeses ==
    /\ op = "init"
    /\ claves # <<>>
    /\ todos_los_meses' = sorted_por_clave(claves, <<>>)
    /\ op' = "ordenado"
    /\ UNCHANGED <<claves, ahora, meses_mostrados, default_index, nombreVars,
                   capacidadVars, ausenciaVars, tareaVars, descargaVars>>

\* main, lines 400-405: the current month is in the list
MesActualPresente ==
    /\ op = "ordenado"
    /\ en_lista(todos_los_meses, current_month_year_de(ahora))
    /\ LET current_month_year == current_month_year_de(ahora)
           current_index == list_index(todos_los_meses, current_month_year)
           start_index == Max(0, current_index - 3)
           end_index == Min(Len(todos_los_meses), current_index + 2)
           mostrados == py_slice(todos_los_meses, start_index, end_index)
       IN  /\ meses_mostrados' = mostrados
           /\ default_index' =
                  IF en_lista(mostrados, current_month_year)
                  THEN list_index(mostrados, current_month_year) ELSE 0
    /\ op' = "selectbox"
    /\ UNCHANGED <<claves, ahora, todos_los_meses, nombreVars, capacidadVars,
                   ausenciaVars, tareaVars, descargaVars>>

\* main, lines 406-408: list.index raised ValueError
MesActualAusente ==
    /\ op = "ordenado"
    /\ ~en_lista(todos_los_meses, current_month_year_de(ahora))
    /\ LET mostrados ==
               IF Len(todos_los_meses) > 5
               THEN py_slice(todos_los_meses, Len(todos_los_meses) - 5,
                             Len(todos_los_meses))
               ELSE todos_los_meses
       IN  /\ meses_mostrados' = mostrados
           /\ default_index' = Len(mostrados) - 1
    /\ op' = "selectbox"
    /\ UNCHANGED <<claves, ahora, todos_los_meses, nombreVars, capacidadVars,
                   ausenciaVars, tareaVars, descargaVars>>

NextMeses ==
    \/ OrdenarMeses
    \/ MesActualPresente
    \/ MesActualAusente

SpecMeses == InitMeses /\ [][NextMeses]_vars

\* the months from year 0 to the month of the key
Cronologico(x) == x[2] * 12 + mes_de(x)

\* C15: the month list holds the keys of the report in strictly increasing
\* order of (year, month number), whatever the order of the keys and of the
\* labels; the options are the slice from up to 3 months before to 1 month
\* after the current month when the list holds it, else its last 5 (all when
\* there are fewer), and the default index is an index of the slice.
MesesEnOrden ==
    /\ op \in {"ordenado", "selectbox"} =>
          /\ Len(todos_los_meses) = Len(claves)
          /\ {todos_los_meses[i] : i \in DOMAIN todos_los_meses}
                 = {claves[i] : i \in DOMAIN claves}
          /\ \A i, j \in DOMAIN todos_los_meses :
                 i < j => Cronologico(todos_los_meses[i])
                              < Cronologico(todos_los_meses[j])
    /\ op = "selectbox" =>
          LET n == Len(todos_los_meses)
              actual == current_month_year_de(ahora)
              pos == {i \in 1..n : todos_los_meses[i] = actual}
          IN  /\ \A i \in pos :
                     /\ meses_mostrados
                            = SubSeq(todos_los_meses, Max(1, i - 3),
                                     Min(n, i + 1))
                     /\ meses_mostrados[default_index + 1] = actual
              /\ pos = {} =>
                     /\ meses_mostrados
                            = SubSeq(todos_los_meses, Max(1, n - 4), n)
                     /\ default_index = Len(meses_mostrados) - 1
              /\ default_index \in 0..(Len(meses_mostrados) - 1)

\* C15 witness: six keys inserted with abril first are listed from
\* diciembre-2024; the current month is the fifth and the options are the
\* second to the sixth.
MesesEnOrdenWitness ==
    /\ op = "selectbox"
    /\ Len(claves) = 6
    /\ claves[1] = <<"abril", 2025>>
    /\ todos_los_meses[1] = <<"diciembre", 2024>>
    /\ todos_los_meses[5] = <<"abril", 2025>>
    /\ ahora = <<2025, 4>>
    /\ meses_mostrados = SubSeq(todos_los_meses, 2, 6)
    /\ default_index = 3

====
